---- MODULE Spec2Model ----
(***************************************************************************)
(* Model of qbreader/types.py: the taxonomy enums (Category, Subcategory,  *)
(* Difficulty), the question entities (Tossup, Bonus) with their from_json *)
(* constructors, and the QueryResponse aggregate.                          *)
(*                                                                         *)
(* Python values are tagged records:                                       *)
(*   None    [t |-> "None"]                                                *)
(*   str     [t |-> "str",  v |-> <<characters>>]                          *)
(*   int     [t |-> "int",  v |-> n]                                       *)
(*   list    [t |-> "list", v |-> <<values>>]   tuple likewise             *)
(* A str is the sequence of its characters, so that equality is exact      *)
(* (case, blanks) and joins, str() and lengths are computed, not assumed.  *)
(* A decoded JSON object (dict) is a function from the keys it holds to    *)
(* values; a key the object lacks is outside its DOMAIN.                   *)
(* A call either returns a value or raises an exception:                   *)
(*   [raised |-> FALSE, val |-> v]   [raised |-> TRUE, exc |-> e]          *)
(***************************************************************************)
EXTENDS Integers, Sequences, FiniteSets, TLC

VARIABLES fn, arg, pc, ret, i, tossups, bonuses, calls, text

vars == <<fn, arg, pc, ret, i, tossups, bonuses, calls, text>>

----------------------------------------------------------------------------
(* Bounds of the model. *)

\* longest parts / answers / formatted_answers list of a Bonus record
MaxParts == 2

\* longest questionArray of a query response
MaxArray == 2

\* difficulty integers range over -1 .. MaxLevel
MaxLevel == 11

----------------------------------------------------------------------------
(* Python values. *)

None == [t |-> "None"]

StrV(chars) == [t |-> "str", v |-> chars]

IntV(n) == [t |-> "int", v |-> n]

ListV(elems) == [t |-> "list", v |-> elems]

NL == "\n"

Return(v) == [raised |-> FALSE, val |-> v]

Raise(e) == [raised |-> TRUE, exc |-> e]

KeyError(key) == [type |-> "KeyError", key |-> key]

ValueError(cls, value) == [type |-> "ValueError", cls |-> cls, value |-> value]

\* bool(v): None, "" and empty sequences are falsy, as is the integer 0
Truthy(v) ==
    CASE v.t = "None" -> FALSE
      [] v.t = "int" -> v.v /= 0
      [] OTHER -> Len(v.v) > 0

\* json.get(key) in place of json[key]: None for a key the dict lacks
Getitem_OrNone(json, key) ==
    IF key \in DOMAIN json THEN Return(json[key]) ELSE Return(None)

\* json[key]
Getitem(json, key) ==
    IF key \in DOMAIN json THEN Return(json[key]) ELSE Raise(KeyError(key))

\* json.get(key, default): the default expression is evaluated before the
\* call, so an exception it raises is raised whether or not key is present
DictGet(json, key, default) ==
    IF default.raised THEN default
    ELSE IF key \in DOMAIN json THEN Return(json[key])
    ELSE default

Digit(d) ==
    CASE d = 0 -> "0" [] d = 1 -> "1" [] d = 2 -> "2" [] d = 3 -> "3"
      [] d = 4 -> "4" [] d = 5 -> "5" [] d = 6 -> "6" [] d = 7 -> "7"
      [] d = 8 -> "8" [] d = 9 -> "9"

RECURSIVE Decimal(_)
Decimal(n) ==
    IF n < 0 THEN <<"-">> \o Decimal(-n)
    ELSE IF n < 10 THEN <<Digit(n)>>
    ELSE Decimal(n \div 10) \o <<Digit(n % 10)>>

\* the value passed on without str()
PyStr_Identity(v) == v

\* str(v): a str is returned as it is, an int in decimal, None as "None"
PyStr(v) ==
    CASE v.t = "str" -> v
      [] v.t = "int" -> StrV(Decimal(v.v))
      [] v.t = "None" -> StrV(<<"N", "o", "n", "e">>)

\* tuple(v) of a list or tuple
Tuple(v) == [t |-> "tuple", v |-> v.v]

\* the result of the first argument expression that raises, evaluating
\* the keyword arguments of a call left to right
RECURSIVE FirstRaise(_)
FirstRaise(results) ==
    IF results = <<>> THEN Return(None)
    ELSE IF Head(results).raised THEN Head(results)
    ELSE FirstRaise(Tail(results))

----------------------------------------------------------------------------
(* The taxonomy enums: members in definition order. *)

Category ==
    << [cls |-> "Category", name |-> "LITERATURE", value |-> <<"L", "i", "t", "e", "r", "a", "t", "u", "r", "e">>],
       [cls |-> "Category", name |-> "HISTORY", value |-> <<"H", "i", "s", "t", "o", "r", "y">>],
       [cls |-> "Category", name |-> "SCIENCE", value |-> <<"S", "c", "i", "e", "n", "c", "e">>],
       [cls |-> "Category", name |-> "FINE_ARTS", value |-> <<"F", "i", "n", "e", " ", "A", "r", "t", "s">>],
       [cls |-> "Category", name |-> "RELIGION", value |-> <<"R", "e", "l", "i", "g", "i", "o", "n">>],
       [cls |-> "Category", name |-> "MYTHOLOGY", value |-> <<"M", "y", "t", "h", "o", "l", "o", "g", "y">>],
       [cls |-> "Category", name |-> "PHILOSOPHY", value |-> <<"P", "h", "i", "l", "o", "s", "o", "p", "h", "y">>],
       [cls |-> "Category", name |-> "SOCIAL_SCIENCE", value |-> <<"S", "o", "c", "i", "a", "l", " ", "S", "c", "i", "e", "n", "c", "e">>],
       [cls |-> "Category", name |-> "CURRENT_EVENTS", value |-> <<"C", "u", "r", "r", "e", "n", "t", " ", "E", "v", "e", "n", "t", "s">>],
       [cls |-> "Category", name |-> "GEOGRAPHY", value |-> <<"G", "e", "o", "g", "r", "a", "p", "h", "y">>],
       [cls |-> "Category", name |-> "OTHER_ACADEMIC", value |-> <<"O", "t", "h", "e", "r", " ", "A", "c", "a", "d", "e", "m", "i", "c">>],
       [cls |-> "Category", name |-> "TRASH", value |-> <<"T", "r", "a", "s", "h">>] >>

Subcategory ==
    << [cls |-> "Subcategory", name |-> "AMERICAN_LITERATURE", value |-> <<"A", "m", "e", "r", "i", "c", "a", "n", " ", "L", "i", "t", "e", "r", "a", "t", "u", "r", "e">>],
       [cls |-> "Subcategory", name |-> "BRITISH_LITERATURE", value |-> <<"B", "r", "i", "t", "i", "s", "h", " ", "L", "i", "t", "e", "r", "a", "t", "u", "r", "e">>],
       [cls |-> "Subcategory", name |-> "CLASSICAL_LITERATURE", value |-> <<"C", "l", "a", "s", "s", "i", "c", "a", "l", " ", "L", "i", "t", "e", "r", "a", "t", "u", "r", "e">>],
       [cls |-> "Subcategory", name |-> "EUROPEAN_LITERATURE", value |-> <<"E", "u", "r", "o", "p", "e", "a", "n", " ", "L", "i", "t", "e", "r", "a", "t", "u", "r", "e">>],
       [cls |-> "Subcategory", name |-> "WORLD_LITERATURE", value |-> <<"W", "o", "r", "l", "d", " ", "L", "i", "t", "e", "r", "a", "t", "u", "r", "e">>],
       [cls |-> "Subcategory", name |-> "OTHER_LITERATURE", value |-> <<"O", "t", "h", "e", "r", " ", "L", "i", "t", "e", "r", "a", "t", "u", "r", "e">>],
       [cls |-> "Subcategory", name |-> "AMERICAN_HISTORY", value |-> <<"A", "m", "e", "r", "i", "c", "a", "n", " ", "H", "i", "s", "t", "o", "r", "y">>],
       [cls |-> "Subcategory", name |-> "ANCIENT_HISTORY", value |-> <<"A", "n", "c", "i", "e", "n", "t", " ", "H", "i", "s", "t", "o", "r", "y">>],
       [cls |-> "Subcategory", name |-> "EUROPEAN_HISTORY", value |-> <<"E", "u", "r", "o", "p", "e", "a", "n", " ", "H", "i", "s", "t", "o", "r", "y">>],
       [cls |-> "Subcategory", name |-> "WORLD_HISTORY", value |-> <<"W", "o", "r", "l", "d", " ", "H", "i", "s", "t", "o", "r", "y">>],
       [cls |-> "Subcategory", name |-> "OTHER_HISTORY", value |-> <<"O", "t", "h", "e", "r", " ", "H", "i", "s", "t", "o", "r", "y">>],
       [cls |-> "Subcategory", name |-> "BIOLOGY", value |-> <<"B", "i", "o", "l", "o", "g", "y">>],
       [cls |-> "Subcategory", name |-> "CHEMISTRY", value |-> <<"C", "h", "e", "m", "i", "s", "t", "r", "y">>],
       [cls |-> "Subcategory", name |-> "PHYSICS", value |-> <<"P", "h", "y", "s", "i", "c", "s">>],
       [cls |-> "Subcategory", name |-> "MATH", value |-> <<"M", "a", "t", "h">>],
       [cls |-> "Subcategory", name |-> "OTHER_SCIENCE", value |-> <<"O", "t", "h", "e", "r", " ", "S", "c", "i", "e", "n", "c", "e">>],
       [cls |-> "Subcategory", name |-> "VISUAL_FINE_ARTS", value |-> <<"V", "i", "s", "u", "a", "l", " ", "F", "i", "n", "e", " ", "A", "r", "t", "s">>],
       [cls |-> "Subcategory", name |-> "AUDITORY_FINE_ARTS", value |-> <<"A", "u", "d", "i", "t", "o", "r", "y", " ", "F", "i", "n", "e", " ", "A", "r", "t", "s">>],
       [cls |-> "Subcategory", name |-> "OTHER_FINE_ARTS", value |-> <<"O", "t", "h", "e", "r", " ", "F", "i", "n", "e", " ", "A", "r", "t", "s">>] >>

Difficulty ==
    << [cls |-> "Difficulty", name |-> "UNRATED", value |-> <<"0">>],
       [cls |-> "Difficulty", name |-> "MS", value |-> <<"1">>],
       [cls |-> "Difficulty", name |-> "HS_EASY", value |-> <<"2">>],
       [cls |-> "Difficulty", name |-> "HS_REGS", value |-> <<"3">>],
       [cls |-> "Difficulty", name |-> "HS_HARD", value |-> <<"4">>],
       [cls |-> "Difficulty", name |-> "HS_NATS", value |-> <<"5">>],
       [cls |-> "Difficulty", name |-> "ONE_DOT", value |-> <<"6">>],
       [cls |-> "Difficulty", name |-> "TWO_DOT", value |-> <<"7">>],
       [cls |-> "Difficulty", name |-> "THREE_DOT", value |-> <<"8">>],
       [cls |-> "Difficulty", name |-> "FOUR_DOT", value |-> <<"9">>],
       [cls |-> "Difficulty", name |-> "OPEN", value |-> <<"1", "0">>] >>

----------------------------------------------------------------------------
(* Enum lookup by value, Category(value): the member whose value equals    *)
(* the argument, or ValueError.  A str equals only a str with the same     *)
(* characters.                                                             *)

\* chars without leading and trailing blanks
RECURSIVE Strip(_)
Strip(chars) ==
    IF chars = <<>> THEN chars
    ELSE IF Head(chars) = " " THEN Strip(Tail(chars))
    ELSE IF chars[Len(chars)] = " " THEN Strip(SubSeq(chars, 1, Len(chars) - 1))
    ELSE chars

\* a lookup that trims the argument before matching
EnumCall_Strip(members, value) ==
    LET hits == {k \in 1..Len(members) :
                    value.t = "str" /\ members[k].value = Strip(value.v)}
    IN  IF hits /= {}
        THEN Return(members[CHOOSE k \in hits : \A h \in hits : k <= h])
        ELSE Raise(ValueError(members[1].cls, value))

EnumCall(members, value) ==
    LET hits == {k \in 1..Len(members) :
                    value.t = "str" /\ members[k].value = value.v}
    IN  IF hits /= {}
        THEN Return(members[CHOOSE k \in hits : \A h \in hits : k <= h])
        ELSE Raise(ValueError(members[1].cls, value))

CategoryCall(value) == EnumCall(Category, value)

SubcategoryCall(value) == EnumCall(Subcategory, value)

DifficultyCall(value) == EnumCall(Difficulty, value)

\* str(member) of a StrEnum member is its value
EnumStr(member) == StrV(member.value)

\* Category(r), Subcategory(r) and Difficulty(str(r)) of an argument
\* expression r: evaluating r may already have raised
CategoryOf(r) == IF r.raised THEN r ELSE CategoryCall(r.val)

SubcategoryOf(r) == IF r.raised THEN r ELSE SubcategoryCall(r.val)

DifficultyOfStr(r) == IF r.raised THEN r ELSE DifficultyCall(PyStr(r.val))

----------------------------------------------------------------------------
(* Tossup *)

\* Tossup.__init__ falling back only when formatted_answer is None
Tossup_init_NoneOnly(question, formatted_answer, answer, category, subcategory, set, year, packet_number, question_number, difficulty) ==
    [cls |-> "Tossup",
     question |-> question,
     formatted_answer |->
         IF formatted_answer.t /= "None" THEN formatted_answer ELSE answer,
     answer |-> answer,
     category |-> category,
     subcategory |-> subcategory,
     set |-> set,
     year |-> year,
     packet_number |-> packet_number,
     question_number |-> question_number,
     difficulty |-> difficulty]

Tossup_init(question, formatted_answer, answer, category, subcategory, set, year, packet_number, question_number, difficulty) ==
    [cls |-> "Tossup",
     question |-> question,
     formatted_answer |->
         IF Truthy(formatted_answer) THEN formatted_answer ELSE answer,
     answer |-> answer,
     category |-> category,
     subcategory |-> subcategory,
     set |-> set,
     year |-> year,
     packet_number |-> packet_number,
     question_number |-> question_number,
     difficulty |-> difficulty]

Tossup_from_json(json) ==
    LET a == << Getitem(json, "question"),
                DictGet(json, "formatted_answer", Getitem(json, "answer")),
                Getitem(json, "answer"),
                CategoryOf(Getitem(json, "category")),
                SubcategoryOf(Getitem(json, "subcategory")),
                Getitem(json, "setName"),
                Getitem(json, "setYear"),
                Getitem(json, "packetNumber"),
                Getitem(json, "questionNumber"),
                DifficultyOfStr(Getitem(json, "difficulty")) >>
    IN  IF FirstRaise(a).raised THEN FirstRaise(a)
        ELSE Return(Tossup_init(a[1].val, a[2].val, a[3].val, a[4].val,
                                a[5].val, a[6].val, a[7].val, a[8].val,
                                a[9].val, a[10].val))

Tossup_str(self) == self.question

----------------------------------------------------------------------------
(* Bonus *)

\* Bonus.__init__ substituting answers[k] for each empty formatted answer
Bonus_init_Elementwise(leadin, parts, formatted_answers, answers, category, subcategory, set, year, packet_number, question_number, difficulty) ==
    [cls |-> "Bonus",
     leadin |-> leadin,
     parts |-> Tuple(parts),
     formatted_answers |->
         IF Truthy(formatted_answers)
         THEN [t |-> "tuple",
               v |-> [k \in 1..Len(formatted_answers.v) |->
                        IF Truthy(formatted_answers.v[k])
                               \/ k > Len(answers.v)
                        THEN formatted_answers.v[k] ELSE answers.v[k]]]
         ELSE Tuple(answers),
     answers |-> Tuple(answers),
     category |-> category,
     subcategory |-> subcategory,
     set |-> set,
     year |-> year,
     packet_number |-> packet_number,
     question_number |-> question_number,
     difficulty |-> difficulty]

Bonus_init(leadin, parts, formatted_answers, answers, category, subcategory, set, year, packet_number, question_number, difficulty) ==
    [cls |-> "Bonus",
     leadin |-> leadin,
     parts |-> Tuple(parts),
     formatted_answers |->
         Tuple(IF Truthy(formatted_answers) THEN formatted_answers
               ELSE answers),
     answers |-> Tuple(answers),
     category |-> category,
     subcategory |-> subcategory,
     set |-> set,
     year |-> year,
     packet_number |-> packet_number,
     question_number |-> question_number,
     difficulty |-> difficulty]

Bonus_from_json(json) ==
    LET a == << Getitem(json, "leadin"),
                Getitem(json, "parts"),
                DictGet(json, "formatted_answers", Getitem(json, "answers")),
                Getitem(json, "answers"),
                CategoryOf(Getitem(json, "category")),
                SubcategoryOf(Getitem(json, "subcategory")),
                Getitem(json, "setName"),
                Getitem(json, "setYear"),
                Getitem(json, "packetNumber"),
                Getitem(json, "questionNumber"),
                DifficultyOfStr(Getitem(json, "difficulty")) >>
    IN  IF FirstRaise(a).raised THEN FirstRaise(a)
        ELSE Return(Bonus_init(a[1].val, a[2].val, a[3].val, a[4].val,
                               a[5].val, a[6].val, a[7].val, a[8].val,
                               a[9].val, a[10].val, a[11].val))

\* sep.join(strs): the strs in order with sep between consecutive ones
RECURSIVE Join(_, _)
Join(sep, strs) ==
    IF strs = <<>> THEN StrV(<<>>)
    ELSE IF Len(strs) = 1 THEN strs[1]
    ELSE StrV(strs[1].v \o sep.v \o Join(sep, Tail(strs)).v)

\* a rendering that puts the leadin before the parts
Bonus_str_Leadin(self) == Join(StrV(<<NL>>), <<self.leadin>> \o self.parts.v)

Bonus_str(self) == Join(StrV(<<NL>>), self.parts.v)

----------------------------------------------------------------------------
(* QueryResponse *)

\* a constructor that counts the records in place of the reported total
QueryResponse_init_Len(tossups_, bonuses_, tossups_found, bonuses_found, query_string) ==
    [cls |-> "QueryResponse",
     tossups |-> tossups_,
     bonuses |-> bonuses_,
     tossups_found |-> IntV(Len(tossups_.v)),
     bonuses_found |-> IntV(Len(bonuses_.v)),
     query_string |-> query_string]

QueryResponse_init(tossups_, bonuses_, tossups_found, bonuses_found, query_string) ==
    [cls |-> "QueryResponse",
     tossups |-> tossups_,
     bonuses |-> bonuses_,
     tossups_found |-> tossups_found,
     bonuses_found |-> bonuses_found,
     query_string |-> query_string]

\* [str(tossup) for tossup in self.tossups]
TossupStrs(xs) == [k \in 1..Len(xs) |-> Tossup_str(xs[k])]

\* [str(bonus) for bonus in self.bonuses]
BonusStrs(xs) == [k \in 1..Len(xs) |-> Bonus_str(xs[k])]

\* a rendering that leaves the section separator out when a section is
\* empty
QueryResponse_str_NoSep(self) ==
    StrV(Join(StrV(<<NL, NL>>), TossupStrs(self.tossups.v)).v
         \o (IF self.tossups.v = <<>> \/ self.bonuses.v = <<>>
             THEN <<>> ELSE <<NL, NL, NL>>)
         \o Join(StrV(<<NL, NL>>), BonusStrs(self.bonuses.v)).v)

QueryResponse_str(self) ==
    StrV(Join(StrV(<<NL, NL>>), TossupStrs(self.tossups.v)).v
        \o <<NL, NL, NL>>
        \o Join(StrV(<<NL, NL>>), BonusStrs(self.bonuses.v)).v)

----------------------------------------------------------------------------
(* Inputs: the decoded JSON handed to the constructors. *)

\* marks a key that the record does not hold
Absent == [t |-> "absent"]

\* the dict holding the keys of fields that are not marked absent
Object(fields) ==
    [k \in {key \in DOMAIN fields : fields[key].t /= "absent"} |-> fields[k]]

SeqsUpTo(S, n) == UNION {[1..k -> S] : k \in 0..n}

Values(members) == {members[k].value : k \in 1..Len(members)}

\* strings that are no member's value: other case, padding, member names,
\* abbreviations, levels outside the scale, the empty string
OtherStrings ==
    { <<>>,
      <<"s", "c", "i", "e", "n", "c", "e">>,
      <<"S", "C", "I", "E", "N", "C", "E">>,
      <<" ", "S", "c", "i", "e", "n", "c", "e">>,
      <<"S", "c", "i", "e", "n", "c", "e", " ">>,
      <<"F", "i", "n", "e", "A", "r", "t", "s">>,
      <<"F", "I", "N", "E", "_", "A", "R", "T", "S">>,
      <<"B", "i", "o">>,
      <<"b", "i", "o", "l", "o", "g", "y">>,
      <<"M", "a", "t", "h", " ">>,
      <<"H", "S", "_", "E", "A", "S", "Y">>,
      <<"1", "1">>,
      <<"-", "1">>,
      <<"0", "7">>,
      <<"7", " ">>,
      <<" ", "7">>,
      <<"7", ".", "0">> }

TaxonomyStrings ==
    Values(Category) \cup Values(Subcategory) \cup Values(Difficulty)
        \cup OtherStrings

Science == <<"S", "c", "i", "e", "n", "c", "e">>

Biology == <<"B", "i", "o", "l", "o", "g", "y">>

QuestionOpts == {Absent, StrV(<<"Q">>), StrV(<<"W", "h", "o", "?">>)}

AnswerOpts == {Absent, StrV(<<>>), StrV(<<"x">>)}

FormattedAnswerOpts ==
    {Absent, None, StrV(<<>>), StrV(<<"<", "x", ">">>), StrV(<<"x">>)}

CategoryOpts == {StrV(Science), StrV(<<"s", "c", "i", "e", "n", "c", "e">>)}

SubcategoryOpts == {StrV(Biology), StrV(Science)}

\* difficulty as a JSON number or as a JSON string
DifficultyOpts ==
    {IntV(n) : n \in -1..MaxLevel}
        \cup {StrV(s) : s \in Values(Difficulty)}
        \cup {StrV(<<"1", "1">>), StrV(<<"0", "7">>), StrV(<<"-", "1">>)}

TossupJson(q, a, f, c, s, d) ==
    Object([question |-> q, answer |-> a, formatted_answer |-> f,
            category |-> c, subcategory |-> s,
            setName |-> StrV(<<"A", "C", "F">>), setYear |-> IntV(2020),
            packetNumber |-> IntV(1), questionNumber |-> IntV(4),
            difficulty |-> d])

TossupRecords ==
    {TossupJson(q, a, f, c, s, IntV(3)) :
        q \in QuestionOpts, a \in AnswerOpts, f \in FormattedAnswerOpts,
        c \in CategoryOpts, s \in SubcategoryOpts}
    \cup
    {TossupJson(q, StrV(<<"x">>), Absent, c, StrV(Biology), d) :
        q \in {Absent, StrV(<<"Q">>)}, c \in CategoryOpts,
        d \in DifficultyOpts}

PartsOpts ==
    {Absent} \cup
    {ListV(s) : s \in SeqsUpTo({StrV(<<"p">>), StrV(<<"q", "q">>)}, MaxParts)}

AnswersOpts ==
    {Absent} \cup
    {ListV(s) : s \in SeqsUpTo({StrV(<<"x">>), StrV(<<"y">>)}, MaxParts)}

FormattedAnswersOpts ==
    {Absent, None} \cup
    {ListV(s) : s \in SeqsUpTo({StrV(<<>>), StrV(<<"<", "x", ">">>)}, MaxParts)}

BonusJson(l, p, f, a, c, s, d) ==
    Object([leadin |-> l, parts |-> p, formatted_answers |-> f,
            answers |-> a, category |-> c, subcategory |-> s,
            setName |-> StrV(<<"A", "C", "F">>), setYear |-> IntV(2020),
            packetNumber |-> IntV(2), questionNumber |-> IntV(7),
            difficulty |-> d])

BonusRecords ==
    {BonusJson(l, p, f, a, c, StrV(Biology), StrV(<<"3">>)) :
        l \in {Absent, StrV(<<"L">>)}, p \in PartsOpts,
        f \in FormattedAnswersOpts, a \in AnswersOpts, c \in CategoryOpts}
    \cup
    {BonusJson(l, ListV(<<StrV(<<"p">>)>>), Absent, ListV(<<StrV(<<"x">>)>>),
               StrV(Science), s, d) :
        l \in {Absent, StrV(<<"L">>)}, s \in SubcategoryOpts,
        d \in DifficultyOpts}

\* elements of tossups.questionArray: two records that parse (the first
\* with difficulty 3, category Science and no formatted_answer), one that
\* lacks its question, one with an unknown category
TossupElems ==
    { TossupJson(StrV(<<"Q">>), StrV(<<"x">>), Absent, StrV(Science),
                 StrV(Biology), IntV(3)),
      TossupJson(StrV(<<"W", "h", "o", "?">>), StrV(<<"y">>),
                 StrV(<<"<", "y", ">">>), StrV(Science), StrV(Biology),
                 StrV(<<"7">>)),
      TossupJson(Absent, StrV(<<"x">>), Absent, StrV(Science),
                 StrV(Biology), IntV(3)),
      TossupJson(StrV(<<"Q">>), StrV(<<"x">>), Absent,
                 StrV(<<"s", "c", "i", "e", "n", "c", "e">>), StrV(Biology),
                 IntV(3)) }

\* elements of bonuses.questionArray: two records that parse, one that
\* lacks its answers, one with a difficulty outside the scale
BonusElems ==
    { BonusJson(StrV(<<"L">>), ListV(<<StrV(<<"p">>), StrV(<<"q", "q">>)>>),
                Absent, ListV(<<StrV(<<"x">>), StrV(<<"y">>)>>),
                StrV(Science), StrV(Biology), IntV(3)),
      BonusJson(StrV(<<"M">>), ListV(<<StrV(<<"r">>)>>),
                ListV(<<StrV(<<"<", "z", ">">>)>>), ListV(<<StrV(<<"z">>)>>),
                StrV(Science), StrV(Biology), StrV(<<"1", "0">>)),
      BonusJson(StrV(<<"L">>), ListV(<<StrV(<<"p">>)>>), Absent, Absent,
                StrV(Science), StrV(Biology), IntV(3)),
      BonusJson(StrV(<<"L">>), ListV(<<StrV(<<"p">>)>>), Absent,
                ListV(<<StrV(<<"x">>)>>), StrV(Science), StrV(Biology),
                IntV(11)) }

\* the query endpoint's response; count is the number of matches, not the
\* number of records on the page
QueryJsons ==
    {[tossups |-> Object([questionArray |-> ListV(ts), count |-> tc]),
      bonuses |-> Object([questionArray |-> ListV(bs), count |-> IntV(0)]),
      queryString |-> StrV(<<"q", "b">>)] :
        ts \in SeqsUpTo(TossupElems, MaxArray),
        bs \in SeqsUpTo(BonusElems, MaxArray),
        tc \in {Absent, IntV(57)}}

Inputs(f) ==
    CASE f \in {"Category", "Subcategory", "Difficulty"} ->
             {StrV(s) : s \in TaxonomyStrings}
      [] f = "Tossup.from_json" -> TossupRecords
      [] f = "Bonus.from_json" -> BonusRecords
      [] f = "QueryResponse.from_json" -> QueryJsons

Functions ==
    {"Category", "Subcategory", "Difficulty", "Tossup.from_json",
     "Bonus.from_json", "QueryResponse.from_json"}

----------------------------------------------------------------------------
(* The program: one call of a constructor on an input, then str() of the   *)
(* object it returned.  pc is the position of the caller: "call" before    *)
(* the call, "tossups" and "bonuses" inside the two list comprehensions    *)
(* of QueryResponse.from_json, "done" once the call returned or raised,    *)
(* "printed" after str().  i counts the elements a comprehension has       *)
(* consumed, tossups and bonuses are the lists under construction, calls   *)
(* records the element constructors invoked so far.                        *)

Init ==
    /\ fn \in Functions
    /\ arg \in Inputs(fn)
    /\ pc = "call"
    /\ ret = None
    /\ i = 0
    /\ tossups = <<>>
    /\ bonuses = <<>>
    /\ calls = <<>>
    /\ text = None

CallCategory ==
    /\ pc = "call" /\ fn = "Category"
    /\ ret' = CategoryCall(arg)
    /\ pc' = "done"
    /\ UNCHANGED <<fn, arg, i, tossups, bonuses, calls, text>>

CallSubcategory ==
    /\ pc = "call" /\ fn = "Subcategory"
    /\ ret' = SubcategoryCall(arg)
    /\ pc' = "done"
    /\ UNCHANGED <<fn, arg, i, tossups, bonuses, calls, text>>

CallDifficulty ==
    /\ pc = "call" /\ fn = "Difficulty"
    /\ ret' = DifficultyCall(arg)
    /\ pc' = "done"
    /\ UNCHANGED <<fn, arg, i, tossups, bonuses, calls, text>>

CallTossupFromJson ==
    /\ pc = "call" /\ fn = "Tossup.from_json"
    /\ ret' = Tossup_from_json(arg)
    /\ pc' = "done"
    /\ UNCHANGED <<fn, arg, i, tossups, bonuses, calls, text>>

CallBonusFromJson ==
    /\ pc = "call" /\ fn = "Bonus.from_json"
    /\ ret' = Bonus_from_json(arg)
    /\ pc' = "done"
    /\ UNCHANGED <<fn, arg, i, tossups, bonuses, calls, text>>

\* json[outer][inner]
Getitem2(json, outer, inner) ==
    IF Getitem(json, outer).raised THEN Getitem(json, outer)
    ELSE Getitem(json[outer], inner)

\* QueryResponse.from_json: the iterable of the first comprehension
QueryResponseBegin ==
    /\ pc = "call" /\ fn = "QueryResponse.from_json"
    /\ LET it == Getitem2(arg, "tossups", "questionArray")
       IN  IF it.raised THEN ret' = it /\ pc' = "done"
           ELSE ret' = ret /\ pc' = "tossups"
    /\ UNCHANGED <<fn, arg, i, tossups, bonuses, calls, text>>

\* an iteration that drops a record that fails to parse and goes on
QueryResponseTossup_Skip ==
    /\ pc = "tossups"
    /\ i < Len(arg["tossups"]["questionArray"].v)
    /\ LET r == Tossup_from_json(arg["tossups"]["questionArray"].v[i + 1])
       IN  /\ calls' = Append(calls, <<"Tossup", i + 1>>)
           /\ tossups' = IF r.raised THEN tossups ELSE Append(tossups, r.val)
           /\ i' = i + 1
           /\ UNCHANGED <<pc, ret>>
    /\ UNCHANGED <<fn, arg, bonuses, text>>

\* one iteration of [Tossup.from_json(tossup) for tossup in ...]
QueryResponseTossup ==
    /\ pc = "tossups"
    /\ i < Len(arg["tossups"]["questionArray"].v)
    /\ LET r == Tossup_from_json(arg["tossups"]["questionArray"].v[i + 1])
       IN  /\ calls' = Append(calls, <<"Tossup", i + 1>>)
           /\ IF r.raised
              THEN ret' = r /\ pc' = "done" /\ UNCHANGED <<i, tossups>>
              ELSE /\ tossups' = Append(tossups, r.val)
                   /\ i' = i + 1
                   /\ UNCHANGED <<pc, ret>>
    /\ UNCHANGED <<fn, arg, bonuses, text>>

\* the first comprehension is exhausted; the iterable of the second
QueryResponseTossupsEnd ==
    /\ pc = "tossups"
    /\ i = Len(arg["tossups"]["questionArray"].v)
    /\ LET it == Getitem2(arg, "bonuses", "questionArray")
       IN  IF it.raised THEN ret' = it /\ pc' = "done"
           ELSE ret' = ret /\ pc' = "bonuses"
    /\ i' = 0
    /\ UNCHANGED <<fn, arg, tossups, bonuses, calls, text>>

\* one iteration of [Bonus.from_json(bonus) for bonus in ...]
QueryResponseBonus ==
    /\ pc = "bonuses"
    /\ i < Len(arg["bonuses"]["questionArray"].v)
    /\ LET r == Bonus_from_json(arg["bonuses"]["questionArray"].v[i + 1])
       IN  /\ calls' = Append(calls, <<"Bonus", i + 1>>)
           /\ IF r.raised
              THEN ret' = r /\ pc' = "done" /\ UNCHANGED <<i, bonuses>>
              ELSE /\ bonuses' = Append(bonuses, r.val)
                   /\ i' = i + 1
                   /\ UNCHANGED <<pc, ret>>
    /\ UNCHANGED <<fn, arg, tossups, text>>

\* the remaining arguments and the constructor
QueryResponseReturn ==
    /\ pc = "bonuses"
    /\ i = Len(arg["bonuses"]["questionArray"].v)
    /\ LET a == << Getitem2(arg, "tossups", "count"),
                   Getitem2(arg, "bonuses", "count"),
                   Getitem(arg, "queryString") >>
       IN  ret' = IF FirstRaise(a).raised THEN FirstRaise(a)
                  ELSE Return(QueryResponse_init(ListV(tossups),
                                  ListV(bonuses), a[1].val, a[2].val,
                                  a[3].val))
    /\ pc' = "done"
    /\ UNCHANGED <<fn, arg, i, tossups, bonuses, calls, text>>

Returned(cls) == pc = "done" /\ ~ret.raised /\ ret.val.cls = cls

\* str(member) of a member an enum call returned
StrMember ==
    /\ \E cls \in {"Category", "Subcategory", "Difficulty"} : Returned(cls)
    /\ text' = EnumStr(ret.val)
    /\ pc' = "printed"
    /\ UNCHANGED <<fn, arg, ret, i, tossups, bonuses, calls>>

StrTossup ==
    /\ Returned("Tossup")
    /\ text' = Tossup_str(ret.val)
    /\ pc' = "printed"
    /\ UNCHANGED <<fn, arg, ret, i, tossups, bonuses, calls>>

StrBonus ==
    /\ Returned("Bonus")
    /\ text' = Bonus_str(ret.val)
    /\ pc' = "printed"
    /\ UNCHANGED <<fn, arg, ret, i, tossups, bonuses, calls>>

StrQueryResponse ==
    /\ Returned("QueryResponse")
    /\ text' = QueryResponse_str(ret.val)
    /\ pc' = "printed"
    /\ UNCHANGED <<fn, arg, ret, i, tossups, bonuses, calls>>

Next ==
    \/ CallCategory
    \/ CallSubcategory
    \/ CallDifficulty
    \/ CallTossupFromJson
    \/ CallBonusFromJson
    \/ QueryResponseBegin
    \/ QueryResponseTossup
    \/ QueryResponseTossupsEnd
    \/ QueryResponseBonus
    \/ QueryResponseReturn
    \/ StrMember
    \/ StrTossup
    \/ StrBonus
    \/ StrQueryResponse

Spec == Init /\ [][Next]_vars

----------------------------------------------------------------------------
(* Properties. *)

Has(json, key) == key \in DOMAIN json

Called(f) == fn = f /\ pc /= "call"

RECURSIVE SumLen(_)
SumLen(pieces) ==
    IF pieces = <<>> THEN 0 ELSE Len(Head(pieces)) + SumLen(Tail(pieces))

\* the length of the pieces with sep between consecutive ones
JoinedLen(pieces, sep) ==
    IF pieces = <<>> THEN 0
    ELSE SumLen(pieces) + (Len(pieces) - 1) * Len(sep)

\* the position of the first character of piece k
Offset(pieces, sep, k) ==
    1 + SumLen(SubSeq(pieces, 1, k - 1)) + (k - 1) * Len(sep)

\* s is the pieces in order, each at its offset, with sep, and nothing
\* else, between consecutive ones
IsJoined(s, pieces, sep) ==
    /\ Len(s) = JoinedLen(pieces, sep)
    /\ \A k \in 1..Len(pieces) :
         LET from == Offset(pieces, sep, k)
             to == from + Len(pieces[k])
         IN  /\ SubSeq(s, from, to - 1) = pieces[k]
             /\ k < Len(pieces) => SubSeq(s, to, to + Len(sep) - 1) = sep

Chars(strs) == [k \in 1..Len(strs) |-> strs[k].v]

\* C1: a Tossup that Tossup.from_json returns has formatted_answer equal to
\* record["answer"] when the key formatted_answer is absent, null or the
\* empty string, and equal to the given value (not to answer) when the key
\* holds a non-empty string; so formatted_answer is never empty when answer
\* is non-empty.
C1_FormattedAnswerFallback ==
    (Called("Tossup.from_json") /\ ~ret.raised) =>
        LET given == Has(arg, "formatted_answer")
            blank == given /\ arg["formatted_answer"] \in {None, StrV(<<>>)}
        IN  /\ (~given \/ blank) => ret.val.formatted_answer = arg["answer"]
            /\ (given /\ ~blank) =>
                  /\ ret.val.formatted_answer = arg["formatted_answer"]
                  /\ arg["formatted_answer"] /= arg["answer"] =>
                        ret.val.formatted_answer /= arg["answer"]
            /\ Len(ret.val.answer.v) > 0 =>
                  Len(ret.val.formatted_answer.v) > 0

\* formatted_answer is present but empty and the answer was substituted
C1_Witness ==
    /\ Called("Tossup.from_json") /\ ~ret.raised
    /\ Has(arg, "formatted_answer")
    /\ arg["formatted_answer"] = StrV(<<>>)
    /\ arg["answer"] = StrV(<<"x">>)
    /\ ret.val.formatted_answer = StrV(<<"x">>)

\* C2: a Bonus that Bonus.from_json returns has formatted_answers equal to
\* the whole answers sequence, in order, when the key formatted_answers is
\* absent, null or an empty sequence; a non-empty sequence is kept element
\* for element, empty strings included.
C2_WholesaleFallback ==
    (Called("Bonus.from_json") /\ ~ret.raised) =>
        LET given == Has(arg, "formatted_answers")
            blank == given /\ arg["formatted_answers"] \in {None, ListV(<<>>)}
        IN  /\ (~given \/ blank) =>
                  ret.val.formatted_answers.v = arg["answers"].v
            /\ (given /\ ~blank) =>
                  /\ Len(ret.val.formatted_answers.v)
                        = Len(arg["formatted_answers"].v)
                  /\ \A k \in 1..Len(arg["formatted_answers"].v) :
                        ret.val.formatted_answers.v[k]
                            = arg["formatted_answers"].v[k]
            /\ ret.val.answers.v = arg["answers"].v

\* a formatted sequence with an empty element beside a non-empty answer
C2_Witness ==
    /\ Called("Bonus.from_json") /\ ~ret.raised
    /\ Has(arg, "formatted_answers")
    /\ arg["formatted_answers"] = ListV(<<StrV(<<>>), StrV(<<"<", "x", ">">>)>>)
    /\ arg["answers"] = ListV(<<StrV(<<"x">>), StrV(<<"y">>)>>)
    /\ ret.val.formatted_answers.v[1] = StrV(<<>>)

\* C3: every Bonus that Bonus.from_json returns has parts, answers and
\* formatted_answers of the same length, whatever the lengths of the
\* record's arrays.
C3_EqualLengths ==
    (Called("Bonus.from_json") /\ ~ret.raised) =>
        /\ Len(ret.val.parts.v) = Len(ret.val.answers.v)
        /\ Len(ret.val.answers.v) = Len(ret.val.formatted_answers.v)

Members(f) ==
    CASE f = "Category" -> Category
      [] f = "Subcategory" -> Subcategory
      [] f = "Difficulty" -> Difficulty

\* C4: for Category, Subcategory and Difficulty, parsing a string succeeds
\* if and only if the string is exactly one of the enum's canonical strings;
\* the variant returned is of that enum, its canonical string is the input
\* (str() of it gives the input back) and no other variant has that string;
\* every other string fails with ValueError and yields no variant.
C4_ExactClosedParse ==
    (fn \in {"Category", "Subcategory", "Difficulty"} /\ pc /= "call") =>
        LET same == {k \in 1..Len(Members(fn)) :
                        Members(fn)[k].value = arg.v}
        IN  /\ ~ret.raised <=> same /= {}
            /\ ~ret.raised =>
                  /\ ret.val.cls = fn
                  /\ ret.val.value = arg.v
                  /\ Cardinality(same) = 1
                  /\ ret.val = Members(fn)[CHOOSE k \in same : TRUE]
            /\ ret.raised =>
                  /\ ret.exc.type = "ValueError"
                  /\ pc /= "printed"
            /\ pc = "printed" => text = arg

\* a canonical string parsed and rendered back
C4_Witness ==
    /\ fn = "Category" /\ pc = "printed"
    /\ arg = StrV(<<"F", "i", "n", "e", " ", "A", "r", "t", "s">>)
    /\ ret.val.name = "FINE_ARTS"
    /\ text = arg

\* the canonical string of level n, 0 <= n <= 10
LevelString(n) ==
    << <<"0">>, <<"1">>, <<"2">>, <<"3">>, <<"4">>, <<"5">>, <<"6">>,
       <<"7">>, <<"8">>, <<"9">>, <<"1", "0">> >>[n + 1]

FromJson(f, json) ==
    IF f = "Tossup.from_json" THEN Tossup_from_json(json)
    ELSE Bonus_from_json(json)

WithDifficulty(json, d) == [json EXCEPT !["difficulty"] = d]

\* C5: Tossup.from_json and Bonus.from_json take a difficulty given as the
\* integer n, 0 <= n <= 10, as they take the string "n": the record and
\* the otherwise identical record with the string have the same outcome,
\* and a record that is valid otherwise parses to the variant whose
\* canonical string is "n"; an integer outside 0..10 fails, with ValueError
\* of Difficulty when the record is valid otherwise.
C5_DifficultyCoercion ==
    (fn \in {"Tossup.from_json", "Bonus.from_json"} /\ pc /= "call"
        /\ Has(arg, "difficulty") /\ arg["difficulty"].t = "int") =>
        LET n == arg["difficulty"].v
            valid == ~FromJson(fn, WithDifficulty(arg, StrV(<<"0">>))).raised
        IN  IF n \in 0..10
            THEN /\ ret = FromJson(fn, WithDifficulty(arg, StrV(LevelString(n))))
                 /\ valid =>
                       /\ ~ret.raised
                       /\ ret.val.difficulty.cls = "Difficulty"
                       /\ ret.val.difficulty.value = LevelString(n)
            ELSE /\ ret.raised
                 /\ valid =>
                       /\ ret.exc.type = "ValueError"
                       /\ ret.exc.cls = "Difficulty"

\* the integer 10 became the variant OPEN
C5_Witness ==
    /\ Called("Bonus.from_json") /\ ~ret.raised
    /\ arg["difficulty"] = IntV(10)
    /\ ret.val.difficulty.name = "OPEN"

FirstOf(S) == CHOOSE k \in S : \A h \in S : k <= h

TossupCalls(n) == [k \in 1..n |-> <<"Tossup", k>>]

BonusCalls(n) == [k \in 1..n |-> <<"Bonus", k>>]

\* C6: when an element of tossups.questionArray or bonuses.questionArray
\* fails to parse, QueryResponse.from_json returns no QueryResponse; it
\* raises what the first failing element raises, tossups in array order
\* before bonuses in array order, and parses no element after that one.
C6_FirstFailureWins ==
    (fn = "QueryResponse.from_json" /\ pc \in {"done", "printed"}) =>
        LET ts == arg["tossups"]["questionArray"].v
            bs == arg["bonuses"]["questionArray"].v
            badT == {k \in 1..Len(ts) : Tossup_from_json(ts[k]).raised}
            badB == {k \in 1..Len(bs) : Bonus_from_json(bs[k]).raised}
        IN  (badT \cup badB /= {}) =>
                /\ ret.raised
                /\ pc = "done"
                /\ IF badT /= {}
                   THEN /\ ret = Tossup_from_json(ts[FirstOf(badT)])
                        /\ calls = TossupCalls(FirstOf(badT))
                   ELSE /\ ret = Bonus_from_json(bs[FirstOf(badB)])
                        /\ calls = TossupCalls(Len(ts))
                                    \o BonusCalls(FirstOf(badB))

\* the second tossup lacks its question, a later bonus is bad as well
C6_Witness ==
    /\ fn = "QueryResponse.from_json" /\ pc = "done"
    /\ Len(arg["tossups"]["questionArray"].v) = 2
    /\ ~Has(arg["tossups"]["questionArray"].v[2], "question")
    /\ Len(arg["bonuses"]["questionArray"].v) = 1
    /\ ~Has(arg["bonuses"]["questionArray"].v[1], "answers")
    /\ ret = Raise(KeyError("question"))
    /\ Len(calls) = 2

\* C7: Tossup.from_json raises KeyError, and returns no object, whenever
\* the record lacks question or answer, and Bonus.from_json whenever it
\* lacks leadin, parts or answers, whatever the other fields are (a
\* formatted_answer(s) does not stand in for a missing answer(s)); the key
\* named is a required one that the record lacks.
C7_RequiredFields ==
    /\ Called("Tossup.from_json") =>
          LET missing == {"question", "answer"} \ DOMAIN arg
          IN  missing /= {} =>
                /\ ret.raised
                /\ ret.exc.type = "KeyError"
                /\ ret.exc.key \in missing
    /\ Called("Bonus.from_json") =>
          LET missing == {"leadin", "parts", "answers"} \ DOMAIN arg
          IN  missing /= {} =>
                /\ ret.raised
                /\ ret.exc.type = "KeyError"
                /\ ret.exc.key \in missing

\* formatted_answer is given, answer is not
C7_Witness ==
    /\ Called("Tossup.from_json")
    /\ Has(arg, "question") /\ ~Has(arg, "answer")
    /\ Has(arg, "formatted_answer")
    /\ arg["formatted_answer"] = StrV(<<"<", "x", ">">>)
    /\ ret = Raise(KeyError("answer"))

\* C8: a QueryResponse that QueryResponse.from_json returns holds one
\* Tossup per element of tossups.questionArray, the k-th being the parse of
\* the k-th element, and likewise for bonuses; tossups_found, bonuses_found
\* and query_string are tossups.count, bonuses.count and queryString as
\* given, whatever the lengths of the lists.
C8_OrderAndCounts ==
    (fn = "QueryResponse.from_json" /\ pc \in {"done", "printed"}
        /\ ~ret.raised) =>
        LET ts == arg["tossups"]["questionArray"].v
            bs == arg["bonuses"]["questionArray"].v
        IN  /\ ret.val.cls = "QueryResponse"
            /\ Len(ret.val.tossups.v) = Len(ts)
            /\ \A k \in 1..Len(ts) :
                  /\ ret.val.tossups.v[k] = Tossup_from_json(ts[k]).val
                  /\ ret.val.tossups.v[k].question = ts[k]["question"]
                  /\ ret.val.tossups.v[k].answer = ts[k]["answer"]
            /\ Len(ret.val.bonuses.v) = Len(bs)
            /\ \A k \in 1..Len(bs) :
                  /\ ret.val.bonuses.v[k] = Bonus_from_json(bs[k]).val
                  /\ ret.val.bonuses.v[k].leadin = bs[k]["leadin"]
                  /\ ret.val.bonuses.v[k].parts.v = bs[k]["parts"].v
            /\ ret.val.tossups_found = arg["tossups"]["count"]
            /\ ret.val.bonuses_found = arg["bonuses"]["count"]
            /\ ret.val.query_string = arg["queryString"]

\* two different records in their order, with 57 matches reported
C8_Witness ==
    /\ fn = "QueryResponse.from_json" /\ pc = "done" /\ ~ret.raised
    /\ Len(ret.val.tossups.v) = 2
    /\ ret.val.tossups.v[1].question = StrV(<<"W", "h", "o", "?">>)
    /\ ret.val.tossups.v[2].question = StrV(<<"Q">>)
    /\ ret.val.tossups_found = IntV(57)
    /\ Len(ret.val.bonuses.v) = 1

\* the characters of the strings of a sequence
CharsOf(pieces) ==
    UNION {{pieces[k][j] : j \in 1..Len(pieces[k])} : k \in 1..Len(pieces)}

\* C9 as stated: str() of a Bonus is its parts, in stored order, with a
\* blank line (two line breaks) between consecutive parts, and nothing of
\* the leadin or the answers.
C9_BlankLineJoined ==
    (Called("Bonus.from_json") /\ pc = "printed") =>
        IsJoined(text.v, Chars(ret.val.parts.v), <<NL, NL>>)

\* C9 amended: str() of a Bonus is its parts, in stored order, with a single
\* line break between consecutive parts; every character of it is a
\* character of a part or such a line break, so nothing of the leadin or
\* the answers is in it.
C9_LineBreakJoined ==
    (Called("Bonus.from_json") /\ pc = "printed") =>
        /\ text.t = "str"
        /\ IsJoined(text.v, Chars(ret.val.parts.v), <<NL>>)
        /\ \A j \in 1..Len(text.v) :
              text.v[j] \in CharsOf(Chars(ret.val.parts.v)) \cup {NL}

\* two parts rendered, of a Bonus that has a leadin and answers
C9_Witness ==
    /\ Called("Bonus.from_json") /\ pc = "printed"
    /\ ret.val.leadin = StrV(<<"L">>)
    /\ ret.val.parts.v = <<StrV(<<"q", "q">>), StrV(<<"p">>)>>
    /\ Len(ret.val.answers.v) = 2
    /\ text = StrV(<<"q", "q", NL, "p">>)

\* the record of the end-to-end case: difficulty 3, category Science, no
\* formatted_answer
PlainTossup ==
    TossupJson(StrV(<<"Q">>), StrV(<<"x">>), Absent, StrV(Science),
               StrV(Biology), IntV(3))

\* C10: str() of a QueryResponse is the question texts of its tossups in
\* list order with a blank line between consecutive ones, then the section
\* separator of three line breaks, then the renderings of its bonuses in
\* list order with a blank line between consecutive ones; for a response
\* parsed from one tossup (difficulty 3, category Science, no
\* formatted_answer) and no bonus it is that question text followed by the
\* separator and nothing else.
C10_QueryResponseText ==
    (fn = "QueryResponse.from_json" /\ pc = "printed") =>
        LET qs == [k \in 1..Len(ret.val.tossups.v) |->
                     ret.val.tossups.v[k].question.v]
            rs == [k \in 1..Len(ret.val.bonuses.v) |->
                     Bonus_str(ret.val.bonuses.v[k]).v]
            nq == JoinedLen(qs, <<NL, NL>>)
            nr == JoinedLen(rs, <<NL, NL>>)
        IN  /\ text.t = "str"
            /\ Len(text.v) = nq + 3 + nr
            /\ IsJoined(SubSeq(text.v, 1, nq), qs, <<NL, NL>>)
            /\ SubSeq(text.v, nq + 1, nq + 3) = <<NL, NL, NL>>
            /\ IsJoined(SubSeq(text.v, nq + 4, nq + 3 + nr), rs, <<NL, NL>>)
            /\ (/\ arg["tossups"]["questionArray"].v = <<PlainTossup>>
                /\ arg["bonuses"]["questionArray"].v = <<>>) =>
                  text.v = PlainTossup["question"].v \o <<NL, NL, NL>>

\* the end-to-end case rendered
C10_Witness ==
    /\ fn = "QueryResponse.from_json" /\ pc = "printed"
    /\ arg["tossups"]["questionArray"].v = <<PlainTossup>>
    /\ arg["bonuses"]["questionArray"].v = <<>>
    /\ ret.val.tossups.v[1].difficulty.name = "HS_REGS"
    /\ ret.val.tossups.v[1].formatted_answer = StrV(<<"x">>)
    /\ text = StrV(<<"Q", NL, NL, NL>>)

====
